---- MODULE Spec2Model ----
(***************************************************************************)
(* Model of the issue-normalization engine of jira_tool.py:                *)
(* parse_jira_issues, extract_issue_info, its nested parse_date, and       *)
(* extract_description.                                                    *)
(*                                                                         *)
(* JSON / Python values are tagged records:                                *)
(*   [t |-> "null"]                 None / JSON null                       *)
(*   [t |-> "str",  s |-> "..."]    str                                    *)
(*   [t |-> "num",  n |-> i]        int                                    *)
(*   [t |-> "bool", b |-> TRUE]     bool                                   *)
(*   [t |-> "list", items |-> seq]  list                                   *)
(*   [t |-> "obj",  m |-> f]        dict; a key that is absent is not in   *)
(*                                  DOMAIN f                               *)
(*   [t |-> "raise"]                the call raised an exception           *)
(* A JSON text handed to parse_jira_issues is [t |-> "text", toks |-> seq] *)
(* and json.loads parses its token sequence.                               *)
(***************************************************************************)
EXTENDS Integers, Sequences, FiniteSets, TLC

VARIABLES jira_data, pc, data, idx, acc, ret

vars == <<jira_data, pc, data, idx, acc, ret>>

-----------------------------------------------------------------------------
(* Values *)

Null == [t |-> "null"]

Raised == [t |-> "raise"]

\* an optional key that is not present in a dict
Unset == [t |-> "unset"]

Str(s) == [t |-> "str", s |-> s]

Num(n) == [t |-> "num", n |-> n]

Bool(b) == [t |-> "bool", b |-> b]

List(items) == [t |-> "list", items |-> items]

Obj(m) == [t |-> "obj", m |-> m]

EmptyObj == Obj(<<>>)

EmptyList == List(<<>>)

IsNull(v) == v.t = "null"

IsStr(v) == v.t = "str"

IsNum(v) == v.t = "num"

IsList(v) == v.t = "list"

IsObj(v) == v.t = "obj"

IsRaised(v) == v.t = "raise"

\* Python truth value of a value (`if x:` / `if not x:`).
Truthy(v) ==
    CASE v.t = "null" -> FALSE
      [] v.t = "str"  -> v.s # ""
      [] v.t = "num"  -> v.n # 0
      [] v.t = "bool" -> v.b
      [] v.t = "list" -> Len(v.items) > 0
      [] v.t = "obj"  -> DOMAIN v.m # {}
      [] OTHER        -> FALSE

\* o.get(k, d): AttributeError when o is not a dict; an exception raised while
\* computing o propagates.
Get(o, k, d) ==
    IF ~IsObj(o) THEN Raised
    ELSE IF k \in DOMAIN o.m THEN o.m[k] ELSE d

\* The element of a one-element set: The({e(x) : x \in {v}}) is e(v), with v
\* computed once.
The(S) == CHOOSE x \in S : TRUE

\* `k in o` for a dict o.
HasKey(o, k) == IsObj(o) /\ k \in DOMAIN o.m

\* The keys of a dict as a sequence (some fixed order).
RECURSIVE SetToSeq(_)
SetToSeq(S) ==
    IF S = {} THEN <<>>
    ELSE LET x == CHOOSE y \in S : TRUE IN <<x>> \o SetToSeq(S \ {x})

\* The elements a `for x in v` loop visits, as a list: a list's items, a
\* str's characters, a dict's keys; TypeError (Raised) for None, numbers and
\* booleans; an exception raised while computing v propagates.
IterItems(v) ==
    CASE v.t = "list" -> v
      [] v.t = "str"  -> List([i \in 1..Len(v.s) |-> Str(SubSeq(v.s, i, i))])
      [] v.t = "obj"  -> LET ks == SetToSeq(DOMAIN v.m)
                         IN  List([i \in 1..Len(ks) |-> Str(ks[i])])
      [] OTHER        -> Raised

-----------------------------------------------------------------------------
(* Strings *)

\* The three-grave-accent fence of extract_description.  A grave accent cannot
\* be written in a string literal here, so an apostrophe stands for it.
Fence == "'''"

NL == "\n"

LowerChar(c) ==
    CASE c = "A" -> "a" [] c = "B" -> "b" [] c = "C" -> "c" [] c = "D" -> "d"
      [] c = "E" -> "e" [] c = "F" -> "f" [] c = "G" -> "g" [] c = "H" -> "h"
      [] c = "I" -> "i" [] c = "J" -> "j" [] c = "K" -> "k" [] c = "L" -> "l"
      [] c = "M" -> "m" [] c = "N" -> "n" [] c = "O" -> "o" [] c = "P" -> "p"
      [] c = "Q" -> "q" [] c = "R" -> "r" [] c = "S" -> "s" [] c = "T" -> "t"
      [] c = "U" -> "u" [] c = "V" -> "v" [] c = "W" -> "w" [] c = "X" -> "x"
      [] c = "Y" -> "y" [] c = "Z" -> "z" [] OTHER -> c

\* str.lower()
RECURSIVE Lower(_)
Lower(s) ==
    IF s = "" THEN ""
    ELSE LowerChar(SubSeq(s, 1, 1)) \o Lower(SubSeq(s, 2, Len(s)))

\* `sub in s` for two strs
Contains(s, sub) ==
    \E i \in 1..(Len(s) - Len(sub) + 1) : SubSeq(s, i, i + Len(sub) - 1) = sub

\* str.rstrip('/')
RECURSIVE RStripSlash(_)
RStripSlash(s) ==
    IF s # "" /\ SubSeq(s, Len(s), Len(s)) = "/"
    THEN RStripSlash(SubSeq(s, 1, Len(s) - 1))
    ELSE s

\* repr() of a value, as str() uses it inside lists and dicts.
RECURSIVE PyRepr(_)
RECURSIVE PyReprItems(_)
RECURSIVE PyReprPairs(_, _)
PyRepr(v) ==
    CASE v.t = "null" -> "None"
      [] v.t = "str"  -> "'" \o v.s \o "'"
      [] v.t = "num"  -> ToString(v.n)
      [] v.t = "bool" -> IF v.b THEN "True" ELSE "False"
      [] v.t = "list" -> "[" \o PyReprItems(v.items) \o "]"
      [] v.t = "obj"  -> "{" \o PyReprPairs(v.m, SetToSeq(DOMAIN v.m)) \o "}"
      [] OTHER        -> "?"

PyReprItems(items) ==
    IF Len(items) = 0 THEN ""
    ELSE PyRepr(Head(items))
         \o (IF Len(items) > 1 THEN ", " ELSE "") \o PyReprItems(Tail(items))

PyReprPairs(m, ks) ==
    IF Len(ks) = 0 THEN ""
    ELSE "'" \o Head(ks) \o "': " \o PyRepr(m[Head(ks)])
         \o (IF Len(ks) > 1 THEN ", " ELSE "") \o PyReprPairs(m, Tail(ks))

\* str(v), also what an f-string prints for v.
PyStr(v) == IF IsStr(v) THEN v.s ELSE PyRepr(v)

\* sep.join(parts): TypeError unless every part is a str.
RECURSIVE JoinStrs(_, _)
JoinStrs(parts, sep) ==
    IF Len(parts) = 0 THEN ""
    ELSE Head(parts).s \o (IF Len(parts) > 1 THEN sep ELSE "")
         \o JoinStrs(Tail(parts), sep)

Join(parts, sep) ==
    IF \E i \in 1..Len(parts) : ~IsStr(parts[i]) THEN Raised
    ELSE Str(JoinStrs(parts, sep))

-----------------------------------------------------------------------------
(* extract_description *)

\* The text nodes of one block: the values of node.get("text", "") of the
\* nodes whose type is "text", in order (a list); Raised when the block's
\* content cannot be iterated or a node is not a dict.
RECURSIVE TextsOf(_)
TextsOf(nodes) ==
    IF IsRaised(nodes) THEN Raised
    ELSE IF Len(nodes.items) = 0 THEN EmptyList
    ELSE LET node == Head(nodes.items)
             rest == TextsOf(List(Tail(nodes.items)))
         IN  IF ~IsObj(node) \/ IsRaised(rest) THEN Raised
             ELSE IF Get(node, "type", Null) = Str("text")
                  THEN List(<<Get(node, "text", Str(""))>> \o rest.items)
                  ELSE rest

\* What a paragraph block adds to text_parts: one part per text node.
ParagraphParts(content) ==
    TextsOf(IterItems(Get(content, "content", EmptyList)))

\* What a codeBlock block adds to text_parts: the fenced concatenation of its
\* text nodes, or nothing when that concatenation is empty.
CodeBlockParts(content) ==
    LET texts == TextsOf(IterItems(Get(content, "content", EmptyList)))
    IN  IF IsRaised(texts) THEN Raised
        ELSE LET code_text == Join(texts.items, "")
             IN  IF IsRaised(code_text) THEN Raised
                 ELSE IF code_text.s # ""
                      THEN List(<<Str(Fence \o NL \o code_text.s \o NL \o Fence)>>)
                      ELSE EmptyList

\* text_parts after the loop over the document's blocks (a list).
RECURSIVE TextParts(_)
TextParts(blocks) ==
    IF IsRaised(blocks) THEN Raised
    ELSE IF Len(blocks.items) = 0 THEN EmptyList
    ELSE LET content == Head(blocks.items)
             ty      == Get(content, "type", Null)
             here    == CASE IsRaised(ty)          -> Raised
                          [] ty = Str("paragraph") -> ParagraphParts(content)
                          [] ty = Str("codeBlock") -> CodeBlockParts(content)
                          [] OTHER                 -> EmptyList
             rest    == TextParts(List(Tail(blocks.items)))
         IN  IF IsRaised(here) \/ IsRaised(rest) THEN Raised
             ELSE List(here.items \o rest.items)

extract_description(description_field) ==
    IF ~Truthy(description_field) THEN Str("")
    ELSE IF IsStr(description_field) THEN description_field
    ELSE IF IsObj(description_field)
            /\ Get(description_field, "type", Null) = Str("doc")
    THEN LET text_parts ==
                 TextParts(IterItems(Get(description_field, "content", EmptyList)))
         IN  IF IsRaised(text_parts) THEN Raised
             ELSE Join(text_parts.items, NL)
    ELSE Str(PyStr(description_field))

-----------------------------------------------------------------------------
(* parse_date: datetime.strptime over the three layouts *)

IsDigit(c) == c \in {"0", "1", "2", "3", "4", "5", "6", "7", "8", "9"}

DigitVal(c) ==
    CASE c = "0" -> 0 [] c = "1" -> 1 [] c = "2" -> 2 [] c = "3" -> 3
      [] c = "4" -> 4 [] c = "5" -> 5 [] c = "6" -> 6 [] c = "7" -> 7
      [] c = "8" -> 8 [] c = "9" -> 9

AllDigits(s) == \A i \in 1..Len(s) : IsDigit(SubSeq(s, i, i))

RECURSIVE ToNat(_)
ToNat(s) ==
    IF s = "" THEN 0
    ELSE 10 * ToNat(SubSeq(s, 1, Len(s) - 1)) + DigitVal(SubSeq(s, Len(s), Len(s)))

\* s[i..j] as a number, or -1 when it is not all digits (or too short)
Field(s, i, j) ==
    IF j <= Len(s) /\ AllDigits(SubSeq(s, i, j)) THEN ToNat(SubSeq(s, i, j)) ELSE -1

CharAt(s, i) == IF i <= Len(s) THEN SubSeq(s, i, i) ELSE ""

IsLeap(y) == (y % 4 = 0 /\ y % 100 # 0) \/ y % 400 = 0

DaysInMonth(y, mo) ==
    CASE mo \in {1, 3, 5, 7, 8, 10, 12} -> 31
      [] mo \in {4, 6, 9, 11}           -> 30
      [] OTHER                          -> IF IsLeap(y) THEN 29 ELSE 28

NoMatch == [t |-> "nomatch"]

\* %z : "Z", +HHMM / -HHMM, +HH:MM / -HH:MM; the offset in seconds
ParseOffset(z) ==
    IF z = "Z" THEN [ok |-> TRUE, off |-> 0]
    ELSE LET sign   == CharAt(z, 1)
             colon  == Len(z) = 6 /\ CharAt(z, 4) = ":"
             hh     == Field(z, 2, 3)
             mm     == IF colon THEN Field(z, 5, 6) ELSE Field(z, 4, 5)
         IN  IF /\ sign \in {"+", "-"}
                /\ (Len(z) = 5 \/ colon)
                /\ hh >= 0 /\ mm >= 0 /\ mm <= 59
                /\ hh < 24
             THEN [ok |-> TRUE,
                   off |-> (IF sign = "-" THEN -1 ELSE 1) * (hh * 3600 + mm * 60)]
             ELSE [ok |-> FALSE, off |-> 0]

\* %f : one to six digits, read as a decimal fraction of a second
RECURSIVE PadMicro(_)
PadMicro(f) == IF Len(f) < 6 THEN PadMicro(f \o "0") ELSE ToNat(f)

\* the number of leading digits of s
RECURSIVE DigitRun(_)
DigitRun(s) ==
    IF s # "" /\ IsDigit(SubSeq(s, 1, 1)) THEN 1 + DigitRun(SubSeq(s, 2, Len(s)))
    ELSE 0

\* datetime.strptime(s, fmt) for fmt = 1: "%Y-%m-%dT%H:%M:%S.%f%z",
\* 2: "%Y-%m-%dT%H:%M:%S%z", 3: "%Y-%m-%d", over fixed-width fields;
\* NoMatch is the ValueError.
Strptime(s, fmt) ==
    LET y   == Field(s, 1, 4)
        mo  == Field(s, 6, 7)
        d   == Field(s, 9, 10)
        dateOk == /\ Len(s) >= 10
                  /\ CharAt(s, 5) = "-" /\ CharAt(s, 8) = "-"
                  /\ y >= 1 /\ mo >= 1 /\ mo <= 12
                  /\ d >= 1 /\ d <= DaysInMonth(y, mo)
        h   == Field(s, 12, 13)
        mi  == Field(s, 15, 16)
        sec == Field(s, 18, 19)
        timeOk == /\ Len(s) >= 19
                  /\ CharAt(s, 11) = "T"
                  /\ CharAt(s, 14) = ":" /\ CharAt(s, 17) = ":"
                  /\ h >= 0 /\ h <= 23 /\ mi >= 0 /\ mi <= 59
                  /\ sec >= 0 /\ sec <= 59
        rest   == SubSeq(s, 20, Len(s))
        nfrac  == DigitRun(SubSeq(rest, 2, Len(rest)))
        fracOk == CharAt(rest, 1) = "." /\ nfrac >= 1 /\ nfrac <= 6
        frac   == SubSeq(rest, 2, 1 + nfrac)
        z      == IF fmt = 1 THEN SubSeq(rest, 2 + nfrac, Len(rest)) ELSE rest
        zone   == ParseOffset(z)
        dt(hh, mm, ss, us, aware, off) ==
            [t |-> "datetime", y |-> y, mo |-> mo, d |-> d, h |-> hh, mi |-> mm,
             sec |-> ss, us |-> us, aware |-> aware, off |-> off]
    IN  CASE fmt = 1 ->
               IF dateOk /\ timeOk /\ fracOk /\ zone.ok
               THEN dt(h, mi, sec, PadMicro(frac), TRUE, zone.off) ELSE NoMatch
          [] fmt = 2 ->
               IF dateOk /\ timeOk /\ zone.ok
               THEN dt(h, mi, sec, 0, TRUE, zone.off) ELSE NoMatch
          [] fmt = 3 ->
               IF dateOk /\ Len(s) = 10
               THEN dt(0, 0, 0, 0, FALSE, 0) ELSE NoMatch

\* the order in which parse_date tries the layouts
formats == <<1, 2, 3>>

RECURSIVE TryFormats(_, _)
TryFormats(s, fmts) ==
    IF Len(fmts) = 0 THEN Null
    ELSE LET r == Strptime(s, Head(fmts))
         IN  IF r # NoMatch THEN r ELSE TryFormats(s, Tail(fmts))

\* parse_date trying the first layout only
parse_date_FirstOnly(date_str) ==
    IF IsRaised(date_str) THEN Raised
    ELSE IF ~Truthy(date_str) THEN Null
    ELSE IF ~IsStr(date_str) THEN Raised
    ELSE TryFormats(date_str.s, <<1>>)

\* None for a falsy value; TypeError (Raised) for a truthy value that is not
\* a str; else the first layout that parses, or None.
parse_date(date_str) ==
    IF IsRaised(date_str) THEN Raised
    ELSE IF ~Truthy(date_str) THEN Null
    ELSE IF ~IsStr(date_str) THEN Raised
    ELSE TryFormats(date_str.s, formats)

RECURSIVE Zeros(_)
Zeros(k) == IF k <= 0 THEN "" ELSE "0" \o Zeros(k - 1)

\* n in decimal, zero-padded to width w
Pad(n, w) == Zeros(w - Len(ToString(n))) \o ToString(n)

\* dt.strftime("%Y-%m-%d") if dt else fallback
DateOrDefault(dt, fallback) ==
    IF IsRaised(dt) THEN Raised
    ELSE IF dt = Null THEN Str(fallback)
    ELSE Str(Pad(dt.y, 4) \o "-" \o Pad(dt.mo, 2) \o "-" \o Pad(dt.d, 2))

\* proleptic Gregorian ordinal of a date (date.toordinal)
DaysBeforeYear(y) ==
    365 * (y - 1) + ((y - 1) \div 4) - ((y - 1) \div 100) + ((y - 1) \div 400)

RECURSIVE DaysBeforeMonth(_, _)
DaysBeforeMonth(y, mo) ==
    IF mo <= 1 THEN 0 ELSE DaysInMonth(y, mo - 1) + DaysBeforeMonth(y, mo - 1)

Ordinal(dt) == DaysBeforeYear(dt.y) + DaysBeforeMonth(dt.y, dt.mo) + dt.d

\* a - b for two datetimes: TypeError (Raised) when one carries an offset and
\* the other does not; else the normalized timedelta (0 <= seconds < 86400,
\* 0 <= microseconds < 10^6).
TimeDelta(a, b) ==
    IF a.aware # b.aware THEN Raised
    ELSE LET secsA == a.h * 3600 + a.mi * 60 + a.sec - a.off
             secsB == b.h * 3600 + b.mi * 60 + b.sec - b.off
             us    == a.us - b.us
             whole == (Ordinal(a) - Ordinal(b)) * 86400 + secsA - secsB
                      + (IF us < 0 THEN -1 ELSE 0)
         IN  [t |-> "timedelta",
              days |-> whole \div 86400,
              seconds |-> whole % 86400,
              microseconds |-> IF us < 0 THEN us + 1000000 ELSE us]

\* int(td.total_seconds() // 1): the whole seconds of the span
TotalSeconds(td) == td.days * 86400 + td.seconds

\* SpanRecord with the test written `<= 30`
SpanRecord_Within30(td) ==
    LET total_seconds == TotalSeconds(td)
        hours   == (total_seconds % (24 * 3600)) \div 3600
        minutes == (total_seconds % 3600) \div 60
    IN  Obj([days |-> Num(td.days),
             formatted |->
                IF td.days <= 30
                THEN Str(ToString(td.days) \o " days, " \o ToString(hours)
                         \o " hours, " \o ToString(minutes) \o " minutes")
                ELSE Str(ToString(td.days) \o " days")])

\* The {days, formatted} record built from a span: "D days", replaced by
\* "D days, H hours, M minutes" when D < 30.
SpanRecord(td) ==
    LET total_seconds == TotalSeconds(td)
        hours   == (total_seconds % (24 * 3600)) \div 3600
        minutes == (total_seconds % 3600) \div 60
    IN  Obj([days |-> Num(td.days),
             formatted |->
                IF td.days < 30
                THEN Str(ToString(td.days) \o " days, " \o ToString(hours)
                         \o " hours, " \o ToString(minutes) \o " minutes")
                ELSE Str(ToString(td.days) \o " days")])

\* result["duration"]
DurationEntry(created_date, updated_date) ==
    IF IsRaised(created_date) \/ IsRaised(updated_date) THEN Raised
    ELSE IF created_date # Null /\ updated_date # Null
    THEN The({IF IsRaised(duration) THEN Raised ELSE SpanRecord(duration) :
                 duration \in {TimeDelta(updated_date, created_date)}})
    ELSE Obj([days |-> Null, formatted |-> Str("Unknown")])

\* StatusTimeEntry with an else branch like the one of duration
StatusTimeEntry_Fallback(status_changed_date, updated_date) ==
    IF IsRaised(status_changed_date) \/ IsRaised(updated_date) THEN Raised
    ELSE IF status_changed_date # Null /\ updated_date # Null
    THEN The({IF IsRaised(status_duration) THEN Raised
              ELSE SpanRecord(status_duration) :
                 status_duration \in {TimeDelta(updated_date, status_changed_date)}})
    ELSE Obj([days |-> Null, formatted |-> Str("Unknown")])

\* result["time_in_current_status"], or Unset when the key is not set
StatusTimeEntry(status_changed_date, updated_date) ==
    IF IsRaised(status_changed_date) \/ IsRaised(updated_date) THEN Raised
    ELSE IF status_changed_date # Null /\ updated_date # Null
    THEN The({IF IsRaised(status_duration) THEN Raised
              ELSE SpanRecord(status_duration) :
                 status_duration \in {TimeDelta(updated_date, status_changed_date)}})
    ELSE Unset

-----------------------------------------------------------------------------
(* configuration *)

JIRA_URL == "https://XX.atlassian.net/"

CUSTOM_FIELDS ==
    [epic_link    |-> "customfield_10014",
     story_points |-> "customfield_10016",
     sprint       |-> "customfield_10020"]

-----------------------------------------------------------------------------
(* extract_issue_info *)

\* labels if labels else []
LabelsEntry(fields) ==
    LET labels == Get(fields, "labels", EmptyList)
    IN  IF IsRaised(labels) THEN Raised
        ELSE IF Truthy(labels) THEN labels ELSE EmptyList

\* x = fields.get(field, {});  x.get(attr, "") if x else fallback
NameEntry(fields, field, attr, fallback) ==
    LET x == Get(fields, field, EmptyObj)
    IN  IF IsRaised(x) THEN Raised
        ELSE IF Truthy(x) THEN Get(x, attr, Str("")) ELSE Str(fallback)

\* [comp.get("name", "") for comp in components if comp]
RECURSIVE ComponentNames(_)
ComponentNames(components) ==
    IF IsRaised(components) THEN Raised
    ELSE IF Len(components.items) = 0 THEN EmptyList
    ELSE LET comp == Head(components.items)
             rest == ComponentNames(List(Tail(components.items)))
             name == Get(comp, "name", Str(""))
         IN  IF IsRaised(rest) THEN Raised
             ELSE IF ~Truthy(comp) THEN rest
             ELSE IF IsRaised(name) THEN Raised
             ELSE List(<<name>> \o rest.items)

ComponentsEntry(fields) ==
    ComponentNames(IterItems(Get(fields, "components", EmptyList)))

\* TimeEntry with the presence test written `if time_spent:`
TimeEntry_Truthy(fields, field, fallback) ==
    LET v == Get(fields, field, Null)
        n == IF v.t = "bool" THEN (IF v.b THEN 1 ELSE 0) ELSE v.n
    IN  IF IsRaised(v) THEN Raised
        ELSE IF ~Truthy(v)
        THEN Obj([seconds |-> Null, formatted |-> Str(fallback)])
        ELSE IF v.t \notin {"num", "bool"} THEN Raised
        ELSE LET hours   == n \div 3600
                 minutes == (n % 3600) \div 60
             IN  Obj([seconds |-> v,
                      formatted |-> Str(ToString(hours) \o "h "
                                        \o ToString(minutes) \o "m")])

\* result["time_logged"] / result["estimate"]: seconds // 3600 and
\* (seconds % 3600) // 60 when the value is not None
TimeEntry(fields, field, fallback) ==
    LET v == Get(fields, field, Null)
        n == IF v.t = "bool" THEN (IF v.b THEN 1 ELSE 0) ELSE v.n
    IN  IF IsRaised(v) THEN Raised
        ELSE IF v = Null
        THEN Obj([seconds |-> Null, formatted |-> Str(fallback)])
        ELSE IF v.t \notin {"num", "bool"} THEN Raised
        ELSE LET hours   == n \div 3600
                 minutes == (n % 3600) \div 60
             IN  Obj([seconds |-> v,
                      formatted |-> Str(ToString(hours) \o "h "
                                        \o ToString(minutes) \o "m")])

\* result["parent"], or Unset
ParentEntry(fields) ==
    LET parent == Get(fields, "parent", EmptyObj)
    IN  IF IsRaised(parent) THEN Raised
        ELSE IF ~Truthy(parent) THEN Unset
        ELSE LET parent_fields == Get(parent, "fields", EmptyObj)
                 key     == Get(parent, "key", Str(""))
                 summary == Get(parent_fields, "summary", Str(""))
                 st      == Get(parent_fields, "status", Null)
                 status  == IF IsRaised(st) THEN Raised
                            ELSE IF Truthy(st)
                            THEN Get(Get(parent_fields, "status", EmptyObj),
                                     "name", Str(""))
                            ELSE Str("")
             IN  IF IsRaised(key) \/ IsRaised(summary) \/ IsRaised(status)
                 THEN Raised
                 ELSE Obj([key |-> key, summary |-> summary, status |-> status])

\* the {key, summary, status} record appended for a linked issue
LinkedIssueInfo(linked_issue) ==
    LET key     == Get(linked_issue, "key", Null)
        summary == Get(Get(linked_issue, "fields", EmptyObj), "summary", Str(""))
        status  == Get(Get(Get(linked_issue, "fields", EmptyObj),
                           "status", EmptyObj), "name", Str(""))
    IN  IF IsRaised(key) \/ IsRaised(summary) \/ IsRaised(status) THEN Raised
        ELSE Obj([key |-> key, summary |-> summary, status |-> status])

\* LinkType without the .lower()
LinkType_NoLower(link) ==
    LET name == Get(Get(link, "type", EmptyObj), "name", Str(""))
    IN  IF IsStr(name) THEN name ELSE Raised

\* link.get("type", {}).get("name", "").lower()
LinkType(link) ==
    LET name == Get(Get(link, "type", EmptyObj), "name", Str(""))
    IN  IF IsStr(name) THEN Str(Lower(name.s)) ELSE Raised

\* what an outward issue of a link adds: to blockers when the lowered type
\* name contains "blocks", else its key to relates_to
OutwardStep(link, link_type, lists) ==
    IF ~HasKey(link, "outwardIssue") THEN lists
    ELSE LET linked_issue == link.m["outwardIssue"]
         IN  IF Contains(link_type, "blocks")
             THEN LET info == LinkedIssueInfo(linked_issue)
                  IN  IF IsRaised(info) THEN Raised
                      ELSE [lists EXCEPT !.blockers = Append(@, info)]
             ELSE LET key == Get(linked_issue, "key", Null)
                  IN  IF IsRaised(key) THEN Raised
                      ELSE [lists EXCEPT !.relates_to = Append(@, key)]

\* what an inward issue of a link adds: to blocked_by when the lowered type
\* name contains "blocked"
InwardStep(link, link_type, lists) ==
    IF ~HasKey(link, "inwardIssue") THEN lists
    ELSE LET linked_issue == link.m["inwardIssue"]
         IN  IF Contains(link_type, "blocked")
             THEN LET info == LinkedIssueInfo(linked_issue)
                  IN  IF IsRaised(info) THEN Raised
                      ELSE [lists EXCEPT !.blocked_by = Append(@, info)]
             ELSE lists

\* one iteration of `for link in issue_links`
LinkStep(link, lists) ==
    LET link_type == LinkType(link)
    IN  IF IsRaised(link_type) THEN Raised
        ELSE LET after == OutwardStep(link, link_type.s, lists)
             IN  IF after = Raised THEN Raised
                 ELSE InwardStep(link, link_type.s, after)

\* the three lists after the loop over issue_links
RECURSIVE LinkLoop(_, _)
LinkLoop(links, lists) ==
    IF lists = Raised THEN Raised
    ELSE IF Len(links) = 0 THEN lists
    ELSE LinkLoop(Tail(links), LinkStep(Head(links), lists))

ClassifyLinks(fields) ==
    LET issue_links == IterItems(Get(fields, "issuelinks", EmptyList))
    IN  IF IsRaised(issue_links) THEN Raised
        ELSE LinkLoop(issue_links.items,
                      [t |-> "lists", blockers |-> <<>>, blocked_by |-> <<>>,
                       relates_to |-> <<>>])

\* result["epic_link"], or Unset
EpicLinkEntry(fields) ==
    LET epic_link == Get(fields, CUSTOM_FIELDS.epic_link, Null)
    IN  IF IsRaised(epic_link) THEN Raised
        ELSE IF Truthy(epic_link) THEN epic_link ELSE Unset

\* story_points if story_points else None
StoryPointsEntry(fields) ==
    LET story_points == Get(fields, CUSTOM_FIELDS.story_points, Null)
    IN  IF IsRaised(story_points) THEN Raised
        ELSE IF Truthy(story_points) THEN story_points ELSE Null

\* result["sprint"], or Unset when no branch assigns it
SprintEntry(fields) ==
    LET sprint_info == Get(fields, CUSTOM_FIELDS.sprint, Null)
    IN  IF IsRaised(sprint_info) THEN Raised
        ELSE IF Truthy(sprint_info)
        THEN IF IsList(sprint_info)
             THEN LET latest_sprint == sprint_info.items[Len(sprint_info.items)]
                  IN  IF IsStr(latest_sprint) THEN latest_sprint
                      ELSE IF IsObj(latest_sprint)
                      THEN Get(latest_sprint, "name", Str("No sprint"))
                      ELSE Unset
             ELSE IF IsObj(sprint_info)
             THEN Get(sprint_info, "name", Str("No sprint"))
             ELSE Str(PyStr(sprint_info))
        ELSE Null

\* due_date if due_date else "No due date"
DueDateEntry(fields) ==
    LET due_date == Get(fields, "duedate", Null)
    IN  IF IsRaised(due_date) THEN Raised
        ELSE IF Truthy(due_date) THEN due_date ELSE Str("No due date")

\* f"{jira_url.rstrip('/')}/browse/{issue.get('key', '')}"
UrlEntry(issue, jira_url) ==
    LET key == Get(issue, "key", Str(""))
    IN  IF IsRaised(key) THEN Raised
        ELSE Str(RStripSlash(jira_url) \o "/browse/" \o PyStr(key))

\* Every key the function may set, with the value it sets (Unset: not set;
\* Raised: computing it raised).  relates_to is collected but never stored in
\* result.
ResultEntries(issue, jira_url) ==
    The({[key         |-> Get(issue, "key", Str("")),
          url         |-> UrlEntry(issue, jira_url),
          summary     |-> Get(fields, "summary", Str("")),
          description |-> extract_description(Get(fields, "description", Null)),
          labels      |-> LabelsEntry(fields),
          type        |-> NameEntry(fields, "issuetype", "name", ""),
          status      |-> NameEntry(fields, "status", "name", ""),
          priority    |-> NameEntry(fields, "priority", "name", ""),
          assignee    |-> NameEntry(fields, "assignee", "displayName", "Unassigned"),
          reporter    |-> NameEntry(fields, "reporter", "displayName", ""),
          components  |-> ComponentsEntry(fields),
          created     |-> DateOrDefault(created_date, "Unknown"),
          updated     |-> DateOrDefault(updated_date, "Unknown"),
          resolved    |-> DateOrDefault(resolved_date, "Not resolved"),
          duration    |-> DurationEntry(created_date, updated_date),
          time_in_current_status |->
              StatusTimeEntry(status_changed_date, updated_date),
          time_logged |-> TimeEntry(fields, "timespent", "No time logged"),
          estimate    |-> TimeEntry(fields, "timeoriginalestimate",
                                    "No estimate provided"),
          parent      |-> ParentEntry(fields),
          is_blocked  |-> IF lists = Raised THEN Raised
                          ELSE Bool(Len(lists.blocked_by) > 0),
          blocked_by  |-> IF lists = Raised THEN Raised
                          ELSE List(lists.blocked_by),
          blocks      |-> IF lists = Raised THEN Raised
                          ELSE List(lists.blockers),
          epic_link   |-> EpicLinkEntry(fields),
          story_points |-> StoryPointsEntry(fields),
          sprint      |-> SprintEntry(fields),
          due_date    |-> DueDateEntry(fields)] :
        fields \in {Get(issue, "fields", EmptyObj)},
        created_date \in {parse_date(Get(Get(issue, "fields", EmptyObj),
                                         "created", Str("")))},
        updated_date \in {parse_date(Get(Get(issue, "fields", EmptyObj),
                                         "updated", Str("")))},
        status_changed_date \in
            {parse_date(Get(Get(issue, "fields", EmptyObj),
                            "statuscategorychangedate", Str("")))},
        resolved_date \in {parse_date(Get(Get(issue, "fields", EmptyObj),
                                          "resolutiondate", Str("")))},
        lists \in {ClassifyLinks(Get(issue, "fields", EmptyObj))}})

\* The returned dict, or Raised when any statement raised.
extract_issue_info(issue, jira_url) ==
    The({IF \E k \in DOMAIN e : e[k] = Raised THEN Raised
         ELSE Obj([k \in {x \in DOMAIN e : e[x] # Unset} |-> e[k]]) :
            e \in {ResultEntries(issue, jira_url)}})

-----------------------------------------------------------------------------
(* json.loads over a token sequence *)

\* A JSON text (a Python str handed to parse_jira_issues) as its tokens.
Text(toks) == [t |-> "text", toks |-> toks]

IsText(v) == v.t = "text"

LB == [k |-> "["]

RB == [k |-> "]"]

Comma == [k |-> ","]

\* the text of one JSON object or scalar, decoding to v
Val(v) == [k |-> "val", v |-> v]

\* a lexeme that is no JSON token
Junk == [k |-> "junk"]

DecodeError == [t |-> "decode_error"]

\* Parses one value starting at token i: [ok, v, next].
RECURSIVE ParseValue(_, _)
RECURSIVE ParseElems(_, _, _)
ParseValue(toks, i) ==
    IF i > Len(toks) THEN [ok |-> FALSE, v |-> Null, next |-> i]
    ELSE CASE toks[i].k = "val" -> [ok |-> TRUE, v |-> toks[i].v, next |-> i + 1]
           [] toks[i].k = "["   ->
                IF i + 1 <= Len(toks) /\ toks[i + 1].k = "]"
                THEN [ok |-> TRUE, v |-> EmptyList, next |-> i + 2]
                ELSE ParseElems(toks, i + 1, <<>>)
           [] OTHER             -> [ok |-> FALSE, v |-> Null, next |-> i]

\* Parses `value ("," value)* "]"` starting at token i.
ParseElems(toks, i, items) ==
    LET r == ParseValue(toks, i)
    IN  IF ~r.ok \/ r.next > Len(toks) THEN [ok |-> FALSE, v |-> Null, next |-> i]
        ELSE CASE toks[r.next].k = "]" ->
                    [ok |-> TRUE, v |-> List(Append(items, r.v)),
                     next |-> r.next + 1]
               [] toks[r.next].k = "," ->
                    ParseElems(toks, r.next + 1, Append(items, r.v))
               [] OTHER ->
                    [ok |-> FALSE, v |-> Null, next |-> i]

\* json.loads: the decoded value, or DecodeError (json.JSONDecodeError) unless
\* the whole text is exactly one value.
json_loads(text) ==
    LET r == ParseValue(text.toks, 1)
    IN  IF r.ok /\ r.next = Len(text.toks) + 1 THEN r.v ELSE DecodeError

-----------------------------------------------------------------------------
(* parse_jira_issues as a state machine *)

ErrorRecord == Obj([error |-> Str("Invalid JSON format")])

\* Decode without the except clause: the decode error leaves the call as an
\* exception.
Decode_NoCatch ==
    /\ pc = "start"
    /\ IsText(jira_data)
    /\ LET r == json_loads(jira_data)
       IN  IF r = DecodeError
           THEN /\ ret' = Raised
                /\ pc' = "done"
                /\ data' = data
           ELSE /\ data' = r
                /\ pc' = "dispatch"
                /\ ret' = ret
    /\ UNCHANGED <<jira_data, idx, acc>>

\* isinstance(jira_data, str): json.loads, and the error record on a decode
\* failure
Decode ==
    /\ pc = "start"
    /\ IsText(jira_data)
    /\ LET r == json_loads(jira_data)
       IN  IF r = DecodeError
           THEN /\ ret' = ErrorRecord
                /\ pc' = "done"
                /\ data' = data
           ELSE /\ data' = r
                /\ pc' = "dispatch"
                /\ ret' = ret
    /\ UNCHANGED <<jira_data, idx, acc>>

\* else: data = jira_data
UseAsGiven ==
    /\ pc = "start"
    /\ ~IsText(jira_data)
    /\ data' = jira_data
    /\ pc' = "dispatch"
    /\ UNCHANGED <<jira_data, idx, acc, ret>>

\* isinstance(data, list): the comprehension starts
StartList ==
    /\ pc = "dispatch"
    /\ IsList(data)
    /\ idx' = 1
    /\ acc' = <<>>
    /\ pc' = "loop"
    /\ UNCHANGED <<jira_data, data, ret>>

\* NormalizeNext putting each result in front of the earlier ones.
NormalizeNext_Prepend ==
    /\ pc = "loop"
    /\ idx <= Len(data.items)
    /\ LET r == extract_issue_info(data.items[idx], JIRA_URL)
       IN  IF r = Raised
           THEN /\ ret' = Raised
                /\ pc' = "done"
                /\ UNCHANGED <<idx, acc>>
           ELSE /\ acc' = <<r>> \o acc
                /\ idx' = idx + 1
                /\ UNCHANGED <<pc, ret>>
    /\ UNCHANGED <<jira_data, data>>

\* the comprehension's next result; an exception ends the call
NormalizeNext ==
    /\ pc = "loop"
    /\ idx <= Len(data.items)
    /\ LET r == extract_issue_info(data.items[idx], JIRA_URL)
       IN  IF r = Raised
           THEN /\ ret' = Raised
                /\ pc' = "done"
                /\ UNCHANGED <<idx, acc>>
           ELSE /\ acc' = Append(acc, r)
                /\ idx' = idx + 1
                /\ UNCHANGED <<pc, ret>>
    /\ UNCHANGED <<jira_data, data>>

\* the comprehension's list is returned
ReturnList ==
    /\ pc = "loop"
    /\ idx > Len(data.items)
    /\ ret' = List(acc)
    /\ pc' = "done"
    /\ UNCHANGED <<jira_data, data, idx, acc>>

\* else: return extract_issue_info(data, JIRA_URL)
NormalizeSingle ==
    /\ pc = "dispatch"
    /\ ~IsList(data)
    /\ ret' = extract_issue_info(data, JIRA_URL)
    /\ pc' = "done"
    /\ UNCHANGED <<jira_data, data, idx, acc>>

-----------------------------------------------------------------------------
(* The inputs explored *)

MaxIssues == 3

MaxToks == 5

MaxLinks == 2

MaxBlocks == 2

MaxRuns == 2

MaxSprints == 2

SeqsUpTo(S, n) == UNION {[1..k -> S] : k \in 0..n}

\* o with key k set to v; v = Unset removes the key
SetField(o, k, v) ==
    IF v = Unset THEN Obj([x \in DOMAIN o.m \ {k} |-> o.m[x]])
    ELSE Obj([x \in DOMAIN o.m \cup {k} |-> IF x = k THEN v ELSE o.m[x]])

Named(name) == Obj([name |-> Str(name)])

LinkedIssue(key) ==
    Obj([key    |-> Str(key),
         fields |-> Obj([summary |-> Str("About " \o key),
                         status  |-> Named("In Progress")])])

\* a link of the given type name with an outward and/or an inward issue
Link(name, dir) ==
    LET base == Obj([type |-> Named(name)])
        out  == IF dir \in {"out", "both"}
                THEN SetField(base, "outwardIssue", LinkedIssue(name \o "-out"))
                ELSE base
    IN  IF dir \in {"in", "both"}
        THEN SetField(out, "inwardIssue", LinkedIssue(name \o "-in"))
        ELSE out

BaseFields ==
    Obj([summary     |-> Str("Fix login"),
         description |-> Str("Plain text"),
         labels      |-> List(<<Str("backend")>>),
         issuetype   |-> Named("Bug"),
         status      |-> Named("Open"),
         priority    |-> Named("High"),
         assignee    |-> Obj([displayName |-> Str("Ann")]),
         reporter    |-> Obj([displayName |-> Str("Bob")]),
         components  |-> List(<<Named("api")>>),
         created     |-> Str("2024-01-01T10:00:00.000+0000"),
         updated     |-> Str("2024-01-03T12:30:45.500+0000"),
         statuscategorychangedate |-> Str("2024-01-02T09:15:00.000+0000"),
         resolutiondate |-> Null,
         timespent   |-> Num(5400),
         timeoriginalestimate |-> Num(7200),
         parent      |-> LinkedIssue("PRJ-0"),
         issuelinks  |-> List(<<Link("Blocks", "out")>>),
         customfield_10014 |-> Str("PRJ-9"),
         customfield_10016 |-> Num(5),
         customfield_10020 |-> List(<<Named("Sprint 2")>>),
         duedate     |-> Str("2024-02-01")])

IssueOf(fields) == Obj([key |-> Str("PRJ-1"), fields |-> fields])

BaseIssue == IssueOf(BaseFields)

MinimalIssue == Obj([key |-> Str("PRJ-2")])

\* one field of the base issue null or absent; `fields` null or absent; a link
\* or a linked issue with a null or absent part
NullIssues ==
    {IssueOf(SetField(BaseFields, k, v)) :
        k \in DOMAIN BaseFields.m, v \in {Null, Unset}}
    \cup {MinimalIssue, Obj([key |-> Str("PRJ-1"), fields |-> Null]),
          Obj([fields |-> BaseFields]), EmptyObj}
    \cup {IssueOf(SetField(BaseFields, "issuelinks", List(<<l>>))) :
            l \in {SetField(Link("Blocks", "out"), "type", v) : v \in {Null, Unset}}
             \cup {Obj([type |-> Named("Blocks"), outwardIssue |-> i]) :
                     i \in {SetField(LinkedIssue("PRJ-3"), "fields", v) :
                              v \in {Null, Unset, EmptyObj,
                                     Obj([summary |-> Str("s"), status |-> Null])}}}}
    \cup {IssueOf(SetField(BaseFields, "components", List(<<Null, Named("ui")>>)))}

LinkTypeNames == {"Blocks", "is Blocked by", "Relates", "blocks/blocked"}

Links == {Link(n, d) : n \in LinkTypeNames, d \in {"out", "in", "both"}}

LinkIssues ==
    {IssueOf(SetField(EmptyObj, "issuelinks", List(ls))) :
        ls \in SeqsUpTo(Links, MaxLinks)}

TextNode(s) == Obj([type |-> Str("text"), text |-> Str(s)])

Block(type, runs) ==
    Obj([type    |-> Str(type),
         content |-> List([i \in 1..Len(runs) |-> TextNode(runs[i])])])

Blocks ==
    {Block("paragraph", r) : r \in SeqsUpTo({"Hello ", "world"}, MaxRuns)}
    \cup {Block("codeBlock", r) : r \in SeqsUpTo({"x=1"}, MaxRuns)}
    \cup {Block("heading", <<"Title">>)}

Doc(blocks) == Obj([type |-> Str("doc"), content |-> List(blocks)])

Descriptions ==
    {Doc(bs) : bs \in SeqsUpTo(Blocks, MaxBlocks)}
    \cup {Str("Plain text"), Str(""), Null, Unset, Num(0), Num(7), Bool(TRUE),
          Bool(FALSE), EmptyList, List(<<Num(1)>>), EmptyObj,
          Obj([type |-> Str("panel")])}

DescriptionIssues ==
    {IssueOf(SetField(EmptyObj, "description", d)) : d \in Descriptions}

SprintElems == {Str("Sprint 1"), Named("Sprint 2"), Num(3), Null}

Sprints ==
    {List(ss) : ss \in SeqsUpTo(SprintElems, MaxSprints)}
    \cup {Null, Unset, Str("Sprint 9"), Str(""), Num(0), Num(7), Bool(TRUE),
          Named("Sprint 4"), Obj([id |-> Num(4)])}

SprintIssues ==
    {IssueOf(SetField(EmptyObj, CUSTOM_FIELDS.sprint, v)) : v \in Sprints}

StoryPoints == {Null, Unset, Num(0), Num(1), Num(5), Num(13)}

StoryPointIssues ==
    {IssueOf(SetField(EmptyObj, CUSTOM_FIELDS.story_points, v)) :
        v \in StoryPoints}

\* "%Y-%m-%dT%H:%M:%S.%f%z"
FracDates ==
    {Str("2024-01-01T10:00:00.000+0000"),
     Str("2024-01-02T09:15:00.000+0000"),
     Str("2024-01-03T12:30:45.500+0000"),
     Str("2024-01-31T10:00:00.000+0000"),
     Str("2024-01-31T09:59:59.999+0000")}

\* "%Y-%m-%dT%H:%M:%S%z"
NoFracDates == {Str("2024-03-01T08:05:00+0100"), Str("2024-01-02T23:30:00-0500")}

\* "%Y-%m-%d"
BareDates == {Str("2024-01-02"), Str("2024-02-29")}

GoodDates == FracDates \cup NoFracDates \cup BareDates

DateValues == GoodDates \cup {Str("not a date"), Null, Unset}

\* strings in none of the three layouts: no date at all, a month out of
\* range, a time without an offset, a bare date followed by more text
BadDates ==
    {Str("not a date"), Str("2024-13-01"), Str("2024-01-02T09:15:00"),
     Str("2024-01-02 09:15")}

DateIssues ==
    {IssueOf(SetField(SetField(SetField(EmptyObj,
                 "created", c), "updated", u), "statuscategorychangedate", sc)) :
        c \in DateValues, u \in DateValues, sc \in DateValues}

ResolvedIssues ==
    {IssueOf(SetField(SetField(EmptyObj, "created", c), "resolutiondate", r)) :
        c \in DateValues \cup BadDates, r \in DateValues \cup BadDates}

Seconds ==
    {Null, Unset, Num(0), Num(59), Num(3600), Num(5400), Num(90061), Num(-3700)}

TimeIssues ==
    {IssueOf(SetField(SetField(EmptyObj,
                 "timespent", a), "timeoriginalestimate", b)) :
        a \in Seconds, b \in Seconds}

SingleIssues ==
    NullIssues \cup LinkIssues \cup DescriptionIssues \cup SprintIssues
    \cup StoryPointIssues \cup DateIssues \cup ResolvedIssues \cup TimeIssues

ListIssues ==
    {BaseIssue, MinimalIssue, Obj([key |-> Str("PRJ-3"), fields |-> Null]),
     IssueOf(SetField(BaseFields, "summary", Str("Second")))}

Tokens == {LB, RB, Comma, Junk, Val(BaseIssue), Val(MinimalIssue)}

Inputs ==
    SingleIssues
    \cup {List(is) : is \in SeqsUpTo(ListIssues, MaxIssues)}
    \cup {Text(toks) : toks \in SeqsUpTo(Tokens, MaxToks)}

-----------------------------------------------------------------------------
Init ==
    /\ jira_data \in Inputs
    /\ pc = "start"
    /\ data = Null
    /\ idx = 0
    /\ acc = <<>>
    /\ ret = Null

Next ==
    \/ Decode
    \/ UseAsGiven
    \/ StartList
    \/ NormalizeNext
    \/ ReturnList
    \/ NormalizeSingle

Spec == Init /\ [][Next]_vars

-----------------------------------------------------------------------------
(* Properties *)

Done == pc = "done"

\* the call was handed one raw issue (a dict) and returned a record
SingleDone == Done /\ IsObj(jira_data) /\ IsObj(ret)

\* the `fields` of the issue handed in, {} when there is none
InFields ==
    IF HasKey(jira_data, "fields") /\ IsObj(jira_data.m["fields"])
    THEN jira_data.m["fields"] ELSE EmptyObj

\* field k of the input is absent or null
Missing(k) == ~HasKey(InFields, k) \/ InFields.m[k] = Null

\* the value of field k of the input, Null when absent
In(k) == IF HasKey(InFields, k) THEN InFields.m[k] ELSE Null

\* key k of the returned record is v
OutIs(k, v) == HasKey(ret, k) /\ ret.m[k] = v

RECURSIVE Concat(_, _)
Concat(strs, sep) ==
    IF Len(strs) = 0 THEN ""
    ELSE IF Len(strs) = 1 THEN strs[1]
    ELSE strs[1] \o sep \o Concat(Tail(strs), sep)

(* C1: for every raw issue with `fields`, one of the listed fields, a link's
   type or a linked issue's fields/status absent or null, extract_issue_info
   does not raise and returns the documented default for that field. *)
C1_AbsentOrNullNeverRaises ==
    Done /\ jira_data \in NullIssues =>
        /\ IsObj(ret)
        /\ Missing("summary") => OutIs("summary", Str(""))
        /\ Missing("description") => OutIs("description", Str(""))
        /\ Missing("labels") => OutIs("labels", EmptyList)
        /\ Missing("issuetype") => OutIs("type", Str(""))
        /\ Missing("status") => OutIs("status", Str(""))
        /\ Missing("priority") => OutIs("priority", Str(""))
        /\ Missing("assignee") => OutIs("assignee", Str("Unassigned"))
        /\ Missing("reporter") => OutIs("reporter", Str(""))
        /\ Missing("components") => OutIs("components", EmptyList)
        /\ Missing("parent") => ~HasKey(ret, "parent")
        /\ Missing("issuelinks") =>
              OutIs("blocks", EmptyList) /\ OutIs("blocked_by", EmptyList)

\* the issue's links are all of the well-formed links explored
LinksWellFormed ==
    /\ HasKey(InFields, "issuelinks")
    /\ IsList(InFields.m["issuelinks"])
    /\ \A i \in 1..Len(InFields.m["issuelinks"].items) :
          InFields.m["issuelinks"].items[i] \in Links

InLinks == InFields.m["issuelinks"].items

\* the link-type names explored that contain "blocks", resp. "blocked",
\* whatever the case of their letters
BlocksNames == {"Blocks", "blocks/blocked"}

BlockedNames == {"is Blocked by", "blocks/blocked"}

TypeName(link) == link.m["type"].m["name"].s

IsBlocksOut(link) == HasKey(link, "outwardIssue") /\ TypeName(link) \in BlocksNames

IsRelatesOut(link) ==
    HasKey(link, "outwardIssue") /\ TypeName(link) \notin BlocksNames

IsBlockedIn(link) == HasKey(link, "inwardIssue") /\ TypeName(link) \in BlockedNames

\* {key, summary, status} of a linked issue
InfoOf(i) ==
    Obj([key     |-> i.m["key"],
         summary |-> i.m["fields"].m["summary"],
         status  |-> i.m["fields"].m["status"].m["name"]])

ExpectedBlocks ==
    LET sel == SelectSeq(InLinks, IsBlocksOut)
    IN  List([i \in 1..Len(sel) |-> InfoOf(sel[i].m["outwardIssue"])])

ExpectedBlockedBy ==
    LET sel == SelectSeq(InLinks, IsBlockedIn)
    IN  List([i \in 1..Len(sel) |-> InfoOf(sel[i].m["inwardIssue"])])

ExpectedRelatesTo ==
    LET sel == SelectSeq(InLinks, IsRelatesOut)
    IN  List([i \in 1..Len(sel) |-> sel[i].m["outwardIssue"].m["key"]])

(* C2: the returned record always has a relates_to entry: the keys of the
   outward links whose type name does not contain "blocks", in input order. *)
C2_RelatesToPresent ==
    SingleDone /\ jira_data \in LinkIssues /\ Len(ExpectedRelatesTo.items) > 0 =>
        OutIs("relates_to", ExpectedRelatesTo)

\* the description is a document whose blocks are paragraphs and code blocks
\* with at least one text run each
IsPlainDoc(d) ==
    /\ IsObj(d) /\ HasKey(d, "type") /\ d.m["type"] = Str("doc")
    /\ \A i \in 1..Len(d.m["content"].items) :
          LET b == d.m["content"].items[i]
          IN  /\ b.m["type"] \in {Str("paragraph"), Str("codeBlock")}
              /\ Len(b.m["content"].items) > 0

\* the text runs of a block, concatenated with no separator
RunsOf(b) ==
    Concat([i \in 1..Len(b.m["content"].items) |->
               b.m["content"].items[i].m["text"].s], "")

\* a paragraph renders as its runs, a code block as its runs inside fences
Rendering(b) ==
    IF b.m["type"] = Str("paragraph") THEN RunsOf(b)
    ELSE Fence \o NL \o RunsOf(b) \o NL \o Fence

ExpectedDescription(d) ==
    Str(Concat([i \in 1..Len(d.m["content"].items) |->
                   Rendering(d.m["content"].items[i])], NL))

(* C3: for a document description, the output description is the
   single-newline join, in document order, of each block's rendering: a
   paragraph is the concatenation of its text runs with no separator, a code
   block is its text inside fences. *)
C3_DocDescription ==
    SingleDone /\ IsPlainDoc(In("description")) =>
        OutIs("description", ExpectedDescription(In("description")))

\* The token sequence is one JSON value: a value token, or "[" "]" around
\* values separated by commas.
RECURSIVE IsJsonValue(_)
RECURSIVE IsJsonElems(_)
IsJsonValue(toks) ==
    \/ Len(toks) = 1 /\ toks[1].k = "val"
    \/ /\ Len(toks) >= 2
       /\ toks[1] = LB /\ toks[Len(toks)] = RB
       /\ \/ Len(toks) = 2
          \/ IsJsonElems(SubSeq(toks, 2, Len(toks) - 1))

IsJsonElems(toks) ==
    \/ IsJsonValue(toks)
    \/ \E i \in 2..(Len(toks) - 1) :
          /\ toks[i] = Comma
          /\ IsJsonValue(SubSeq(toks, 1, i - 1))
          /\ IsJsonElems(SubSeq(toks, i + 1, Len(toks)))

InvalidJsonInput == IsText(jira_data) /\ ~IsJsonValue(jira_data.toks)

(* C4: given a string that is not valid JSON, parse_jira_issues returns
   exactly {"error": "Invalid JSON format"}, raises nothing, and normalizes
   no issue during that call. *)
C4_InvalidJsonIsErrorRecord ==
    InvalidJsonInput =>
        /\ pc \in {"start", "done"}
        /\ data = Null /\ idx = 0 /\ acc = <<>>
        /\ Done => ret = Obj([error |-> Str("Invalid JSON format")])

C4_Witness ==
    /\ Done
    /\ jira_data = Text(<<LB, Val(BaseIssue), Comma, RB>>)
    /\ ret = Obj([error |-> Str("Invalid JSON format")])

\* a JSON text that is an array of value tokens: "[" v1 "," ... "," vn "]"
IsFlatArray(toks) ==
    \/ toks = <<LB, RB>>
    \/ /\ Len(toks) >= 3 /\ Len(toks) % 2 = 1
       /\ toks[1] = LB /\ toks[Len(toks)] = RB
       /\ \A i \in 2..(Len(toks) - 1) :
             IF i % 2 = 0 THEN toks[i].k = "val" ELSE toks[i] = Comma

\* the input is a sequence of raw issues, given directly or as a JSON array
SequenceInput ==
    \/ IsList(jira_data)
    \/ IsText(jira_data) /\ IsFlatArray(jira_data.toks)

\* the raw issues of a sequence input, in input order
InputIssues ==
    IF IsList(jira_data) THEN jira_data.items
    ELSE [i \in 1..((Len(jira_data.toks) - 1) \div 2) |-> jira_data.toks[2 * i].v]

\* the one raw issue of a single input
SingleInput ==
    \/ IsObj(jira_data)
    \/ IsText(jira_data) /\ Len(jira_data.toks) = 1 /\ jira_data.toks[1].k = "val"

InputIssue == IF IsObj(jira_data) THEN jira_data ELSE jira_data.toks[1].v

(* C5: given a sequence of N raw issues, directly or as a JSON array,
   parse_jira_issues returns a sequence of exactly N records whose i-th
   element is the normalization of the i-th input issue (an exception of a
   normalization is the call's exception); given a single raw issue it
   returns that issue's one record, not a sequence. *)
C5_OrderPreservingMap ==
    Done =>
        /\ SequenceInput =>
              IF \E i \in 1..Len(InputIssues) :
                    extract_issue_info(InputIssues[i], JIRA_URL) = Raised
              THEN ret = Raised
              ELSE /\ IsList(ret)
                   /\ Len(ret.items) = Len(InputIssues)
                   /\ \A i \in 1..Len(InputIssues) :
                         ret.items[i] = extract_issue_info(InputIssues[i], JIRA_URL)
        /\ SingleInput =>
              /\ ~IsList(ret)
              /\ ret = extract_issue_info(InputIssue, JIRA_URL)

C5_Witness ==
    /\ Done
    /\ IsList(jira_data) /\ Len(jira_data.items) = 3
    /\ IsList(ret) /\ Len(ret.items) = 3
    /\ ret.items[1].m["key"] = Str("PRJ-2")
    /\ ret.items[2].m["summary"] = Str("Second")
    /\ ret.items[3].m["summary"] = Str("Fix login")

(* C6: over the ordered issuelinks, with both directions of every link
   checked: every outward link whose type name contains "blocks" appends
   {key, summary, status} of the outward issue to blocks; every inward link
   whose type name contains "blocked" appends {key, summary, status} of the
   inward issue to blocked_by; both keep input order; is_blocked is true
   exactly when blocked_by is non-empty. *)
C6_LinkClassification ==
    SingleDone /\ LinksWellFormed =>
        /\ OutIs("blocks", ExpectedBlocks)
        /\ OutIs("blocked_by", ExpectedBlockedBy)
        /\ OutIs("is_blocked", Bool(Len(ExpectedBlockedBy.items) > 0))

C6_Witness ==
    /\ SingleDone
    /\ In("issuelinks") = List(<<Link("Blocks", "out"), Link("is Blocked by", "in")>>)
    /\ OutIs("is_blocked", Bool(TRUE))
    /\ Len(ret.m["blocked_by"].items) = 1
    /\ Len(ret.m["blocks"].items) = 1

\* the sprint entry the rule gives for a value of the sprint field; Unset
\* where the rule names no value (an empty string, an empty sequence, an
\* object, a sequence ending in something else than a string or object)
ExpectedSprint(v) ==
    CASE v = Null -> Null
      [] IsList(v) /\ Len(v.items) > 0 /\ IsStr(v.items[Len(v.items)]) ->
            v.items[Len(v.items)]
      [] IsList(v) /\ Len(v.items) > 0 /\ IsObj(v.items[Len(v.items)])
            /\ HasKey(v.items[Len(v.items)], "name") ->
            v.items[Len(v.items)].m["name"]
      [] IsStr(v) /\ v.s # "" -> v
      [] IsNum(v) -> Str(ToString(v.n))
      [] v.t = "bool" -> Str(IF v.b THEN "True" ELSE "False")
      [] OTHER -> Unset

(* C7: for every value of the sprint field the record has a sprint entry
   that is a string or null: a sequence resolves from its last element (its
   name if an object, itself if a string), a bare scalar is coerced to its
   string form, an absent or null field yields null. *)
C7_SprintEntry ==
    SingleDone =>
        /\ HasKey(ret, "sprint")
        /\ ret.m["sprint"].t \in {"str", "null"}
        /\ ExpectedSprint(In(CUSTOM_FIELDS.sprint)) # Unset =>
              ret.m["sprint"] = ExpectedSprint(In(CUSTOM_FIELDS.sprint))

(* C8: story_points equals the number held by the story-points field
   whenever it holds a number, 0 included, and is null only when the field
   is absent or null. *)
C8_StoryPoints ==
    SingleDone /\ (IsNum(In(CUSTOM_FIELDS.story_points))
                   \/ In(CUSTOM_FIELDS.story_points) = Null) =>
        OutIs("story_points", In(CUSTOM_FIELDS.story_points))

\* the date field of the input resolves to a date
Resolves(k) == In(k) \in GoodDates

UnknownDuration == Obj([days |-> Null, formatted |-> Str("Unknown")])

(* C9: the output always contains duration, as {days: null, formatted:
   "Unknown"} when created or updated does not resolve, whereas
   time_in_current_status is present exactly when statuscategorychangedate
   and updated both resolve. *)
C9_DurationAlwaysStatusTimeOptional ==
    SingleDone =>
        /\ HasKey(ret, "duration")
        /\ ~(Resolves("created") /\ Resolves("updated")) =>
              ret.m["duration"] = UnknownDuration
        /\ Resolves("created") /\ Resolves("updated") =>
              ret.m["duration"] # UnknownDuration
        /\ HasKey(ret, "time_in_current_status")
              <=> (Resolves("statuscategorychangedate") /\ Resolves("updated"))

C9_Witness ==
    /\ SingleDone
    /\ Resolves("created") /\ Resolves("updated")
    /\ In("statuscategorychangedate") = Str("not a date")
    /\ ret.m["duration"] # UnknownDuration
    /\ ~HasKey(ret, "time_in_current_status")

\* The instant a date string of GoodDates denotes, worked out by hand: whole
\* seconds since 2024-01-01T00:00:00 (UTC for the strings with an offset,
\* local for the bare dates) and microseconds.
InstantOf(v) ==
    CASE v = Str("2024-01-01T10:00:00.000+0000") -> [s |-> 36000, us |-> 0]
      [] v = Str("2024-01-02T09:15:00.000+0000") -> [s |-> 119700, us |-> 0]
      [] v = Str("2024-01-03T12:30:45.500+0000") -> [s |-> 217845, us |-> 500000]
      [] v = Str("2024-01-31T10:00:00.000+0000") -> [s |-> 2628000, us |-> 0]
      [] v = Str("2024-01-31T09:59:59.999+0000") -> [s |-> 2627999, us |-> 999000]
      [] v = Str("2024-03-01T08:05:00+0100")     -> [s |-> 5209500, us |-> 0]
      [] v = Str("2024-01-02T23:30:00-0500")     -> [s |-> 189000, us |-> 0]
      [] v = Str("2024-01-02")                   -> [s |-> 86400, us |-> 0]
      [] v = Str("2024-02-29")                   -> [s |-> 5097600, us |-> 0]

\* whole seconds of (to - from), rounded down
SpanSeconds(from, to) ==
    InstantOf(to).s - InstantOf(from).s
    - (IF InstantOf(to).us < InstantOf(from).us THEN 1 ELSE 0)

\* the {days, formatted} record the rule gives for a span of n whole seconds
ExpectedSpan(n) ==
    LET D == n \div 86400
        remainder == n - D * 86400
        H == remainder \div 3600
        M == (remainder - H * 3600) \div 60
    IN  Obj([days |-> Num(D),
             formatted |->
                IF D < 30
                THEN Str(ToString(D) \o " days, " \o ToString(H) \o " hours, "
                         \o ToString(M) \o " minutes")
                ELSE Str(ToString(D) \o " days")])

(* C10: when a span is computed with whole-day count D: if D < 30 formatted
   is "D days, H hours, M minutes" with H and M from the remainder of the
   span's total seconds after removing whole days; if D >= 30 formatted is
   "D days"; days is D in both cases.  Checked for duration (updated minus
   created) and time_in_current_status (updated minus status-changed). *)
C10_SpanFormat ==
    SingleDone =>
        /\ Resolves("created") /\ Resolves("updated") =>
              ret.m["duration"]
                 = ExpectedSpan(SpanSeconds(In("created"), In("updated")))
        /\ Resolves("statuscategorychangedate") /\ Resolves("updated") =>
              ret.m["time_in_current_status"]
                 = ExpectedSpan(SpanSeconds(In("statuscategorychangedate"),
                                            In("updated")))

C10_Witness ==
    /\ SingleDone
    /\ OutIs("duration",
             Obj([days |-> Num(30), formatted |-> Str("30 days")]))
    /\ OutIs("time_in_current_status",
             Obj([days |-> Num(27),
                  formatted |-> Str("27 days, 21 hours, 29 minutes")]))

\* the layout a date string of GoodDates is written in: 1 with fractional
\* seconds and offset, 2 with offset only, 3 the bare calendar date
LayoutOf(v) ==
    CASE v \in FracDates   -> 1
      [] v \in NoFracDates -> 2
      [] v \in BareDates   -> 3

\* the calendar date written at the front of a date string of GoodDates
CalendarDate(v) == Str(SubSeq(v.s, 1, 10))

\* v is parsed by its own layout, every layout tried before it fails, and the
\* layouts are tried in the order 1, 2, 3
FirstParsing(v) ==
    /\ formats = <<1, 2, 3>>
    /\ \A i \in 1..(LayoutOf(v) - 1) : Strptime(v.s, formats[i]) = NoMatch
    /\ Strptime(v.s, formats[LayoutOf(v)]) # NoMatch
    /\ parse_date(v) = Strptime(v.s, formats[LayoutOf(v)])

\* the date strings that carry a UTC offset
Aware(v) == v \in FracDates \cup NoFracDates

\* two dates that are subtracted both resolve, one with an offset and one
\* without
MixedPair(a, b) == Resolves(a) /\ Resolves(b) /\ Aware(In(a)) # Aware(In(b))

\* input field, output key and fallback of the three date entries
DateEntries ==
    {[in |-> "created",        out |-> "created",  fallback |-> "Unknown"],
     [in |-> "updated",        out |-> "updated",  fallback |-> "Unknown"],
     [in |-> "resolutiondate", out |-> "resolved", fallback |-> "Not resolved"]}

(* C11: date resolution tries the three layouts in the fixed order and uses
   the first that parses; a string in any of the three layouts yields the
   calendar date it is written with, as YYYY-MM-DD, in created / updated /
   resolved; an absent, null or non-matching string does not raise and
   yields "Unknown" for created and updated and "Not resolved" for resolved.
   A call on these inputs raises only where two resolved dates are
   subtracted, never in the resolution of a date. *)
C11_DateResolution ==
    Done /\ jira_data \in DateIssues \cup ResolvedIssues =>
        /\ IsRaised(ret) =>
              \/ MixedPair("created", "updated")
              \/ MixedPair("statuscategorychangedate", "updated")
        /\ IsObj(ret) =>
              \A e \in DateEntries :
                 /\ In(e.in) \in GoodDates =>
                       OutIs(e.out, CalendarDate(In(e.in))) /\ FirstParsing(In(e.in))
                 /\ In(e.in) \notin GoodDates => OutIs(e.out, Str(e.fallback))

C11_Witness ==
    /\ Done /\ jira_data \in ResolvedIssues
    /\ In("created") = Str("2024-01-02T09:15:00")
    /\ In("resolutiondate") = Str("2024-01-02T23:30:00-0500")
    /\ OutIs("created", Str("Unknown"))
    /\ OutIs("updated", Str("Unknown"))
    /\ OutIs("resolved", Str("2024-01-02"))

\* input field, output key and fallback string of the two time entries
TimeEntries ==
    {[in |-> "timespent", out |-> "time_logged", fallback |-> "No time logged"],
     [in |-> "timeoriginalestimate", out |-> "estimate",
      fallback |-> "No estimate provided"]}

\* "{s div 3600}h {(s mod 3600) div 60}m", div and mod rounding down
HoursMinutes(s) ==
    LET h == s \div 3600
        m == (s - 3600 * h) \div 60
    IN  ToString(h) \o "h " \o ToString(m) \o "m"

(* C12: for time_logged (from timespent) and estimate (from
   timeoriginalestimate): a seconds value s that is present, 0 included,
   gives {seconds: s, formatted: "{s div 3600}h {(s mod 3600) div 60}m"}; an
   absent or null one gives {seconds: null, formatted: F} with F = "No time
   logged" for time_logged and "No estimate provided" for estimate, and the
   two fallback entries differ. *)
C12_TimeEntries ==
    SingleDone =>
        /\ \A e \in TimeEntries :
              /\ IsNum(In(e.in)) =>
                    OutIs(e.out, Obj([seconds |-> In(e.in),
                                      formatted |-> Str(HoursMinutes(In(e.in).n))]))
              /\ Missing(e.in) =>
                    OutIs(e.out, Obj([seconds |-> Null,
                                      formatted |-> Str(e.fallback)]))
        /\ Missing("timespent") /\ Missing("timeoriginalestimate") =>
              ret.m["time_logged"].m["formatted"] # ret.m["estimate"].m["formatted"]

C12_Witness ==
    /\ SingleDone
    /\ In("timespent") = Num(0)
    /\ ~HasKey(InFields, "timeoriginalestimate")
    /\ OutIs("time_logged", Obj([seconds |-> Num(0), formatted |-> Str("0h 0m")]))
    /\ OutIs("estimate", Obj([seconds |-> Null,
                              formatted |-> Str("No estimate provided")]))

(* C13: for every raw issue in which created, updated and
   statuscategorychangedate are each a string in one of the three layouts,
   chosen independently (so one may carry a UTC offset and another be a bare
   calendar date), normalization does not raise and returns a record whose
   duration.days is the whole-day count of updated minus created.  Checked on
   the issues that hold nothing but the three dates. *)
C13_IndependentLayouts ==
    /\ Done /\ jira_data \in DateIssues
    /\ Resolves("created") /\ Resolves("updated")
    /\ Resolves("statuscategorychangedate")
    => /\ IsObj(ret)
       /\ HasKey(ret, "duration")
       /\ ret.m["duration"].m["days"]
             = Num(SpanSeconds(In("created"), In("updated")) \div 86400)

\* the description values explored that are not null, not a string and not a
\* document-typed tree
OtherShapes ==
    {Num(0), Num(7), Bool(TRUE), Bool(FALSE), EmptyList, List(<<Num(1)>>),
     EmptyObj, Obj([type |-> Str("panel")])}

\* str() of each value of OtherShapes, written out by hand
Stringified(v) ==
    CASE v = Num(0)            -> "0"
      [] v = Num(7)            -> "7"
      [] v = Bool(TRUE)        -> "True"
      [] v = Bool(FALSE)       -> "False"
      [] v = EmptyList         -> "[]"
      [] v = List(<<Num(1)>>)  -> "[1]"
      [] v = EmptyObj          -> "{}"
      [] v = Obj([type |-> Str("panel")]) -> "{'type': 'panel'}"

(* C14: extract_description is total: an absent or null description yields
   the empty string, a plain string is returned unchanged, and every other
   non-null value that is neither a string nor a document-typed tree (a
   number, 0 included, a boolean, an empty or non-empty list, an object whose
   type is not "doc") yields its stringified form, never raising. *)
C14_DescriptionTotal ==
    Done /\ jira_data \in DescriptionIssues =>
        /\ Missing("description") => IsObj(ret) /\ OutIs("description", Str(""))
        /\ IsStr(In("description")) =>
              IsObj(ret) /\ OutIs("description", In("description"))
        /\ In("description") \in OtherShapes =>
              /\ IsObj(ret)
              /\ OutIs("description", Str(Stringified(In("description"))))

====
